---- MODULE Spec2Model ----
(***************************************************************************)
(* The restaurant extraction pipeline: PipelineOrchestrator driving one    *)
(* queue entry per URL through scrape, extract, validate, (LLM) and        *)
(* persist, over the in-memory repository MemStorage.                      *)
(*                                                                         *)
(* JavaScript runs one handler at a time and yields only at an await, so   *)
(* an action is the code between two awaits of one startExtraction call.   *)
(* Several HTTP requests may have a startExtraction call suspended at an   *)
(* await at the same time; their steps interleave.                         *)
(***************************************************************************)
EXTENDS Integers, Sequences, FiniteSets, TLC

\* ------------------------------------------------------------------ bounds

\* startExtraction requests issued over the life of the process
MaxCalls == 2
\* longest URL list of a request
MaxUrls == 2
\* URLs submitted by all the requests together
MaxItems == 2

Calls == 1..MaxCalls

\* ------------------------------------------------------- values and pages

\* JavaScript null / a Date that was set
NULL == "null"
SET == "set"

\* What a fetched page offers to the extractors.  addressText is the text
\* findAddressText returns, as its comma-separated segments (<<>>: none
\* found); title is the first heading ("" when the page has none); email is
\* the target of the first mailto: link ("" when there is none); words are
\* the dictionary keywords that occur in the body text.
PageFull == [title |-> "Spice Route", email |-> "chef@spiceroute.in",
             addressText |-> <<"12 mg road", "pune", "maharashtra", "411001">>,
             words |-> {"tandoor", "naan", "fried rice"}]
PageNoState == [title |-> "Corner Cafe", email |-> "",
                addressText |-> <<"12 main road", "springfield", "somewhere">>,
                words |-> {}]

Pages == {PageFull, PageNoState}
NoPage == [title |-> "", email |-> "", addressText |-> <<>>, words |-> {}]

\* ------------------------------------------------- DataExtractionService

states == <<"maharashtra", "delhi", "karnataka", "tamil nadu", "gujarat",
            "rajasthan", "punjab", "haryana", "uttar pradesh", "bihar",
            "west bengal">>
cities == <<"mumbai", "delhi", "bangalore", "chennai", "kolkata", "hyderabad",
            "pune", "ahmedabad", "surat", "jaipur", "lucknow", "kanpur",
            "nagpur">>

\* s.replace(/^\w/, c => c.toUpperCase()) on the gazetteer names
Capitalize(s) ==
  CASE s = "maharashtra" -> "Maharashtra" [] s = "delhi" -> "Delhi"
    [] s = "karnataka" -> "Karnataka" [] s = "tamil nadu" -> "Tamil nadu"
    [] s = "gujarat" -> "Gujarat" [] s = "rajasthan" -> "Rajasthan"
    [] s = "punjab" -> "Punjab" [] s = "haryana" -> "Haryana"
    [] s = "uttar pradesh" -> "Uttar pradesh" [] s = "bihar" -> "Bihar"
    [] s = "west bengal" -> "West bengal" [] s = "mumbai" -> "Mumbai"
    [] s = "bangalore" -> "Bangalore" [] s = "chennai" -> "Chennai"
    [] s = "kolkata" -> "Kolkata" [] s = "hyderabad" -> "Hyderabad"
    [] s = "pune" -> "Pune" [] s = "ahmedabad" -> "Ahmedabad"
    [] s = "surat" -> "Surat" [] s = "jaipur" -> "Jaipur"
    [] s = "lucknow" -> "Lucknow" [] s = "kanpur" -> "Kanpur"
    [] s = "nagpur" -> "Nagpur" [] OTHER -> s

\* lowerAddress.includes(name): some segment of the text is the name
Includes(text, name) == \E i \in 1..Len(text) : text[i] = name

\* for (const x of list) { if (includes(x)) { ...; break } }: the first hit
FirstHit(text, list) ==
  LET hits == {i \in 1..Len(list) : Includes(text, list[i])}
  IN IF hits = {} THEN 0 ELSE CHOOSE i \in hits : \A j \in hits : i <= j

\* /\b\d{6}\b/: the segments that are a 6-digit PIN code
PinCodes == {"411001", "400001"}
PinMatch(text) ==
  LET hits == {i \in 1..Len(text) : text[i] \in PinCodes}
  IN IF hits = {} THEN 0 ELSE CHOOSE i \in hits : \A j \in hits : i <= j

\* `a || b` on strings
OrElse(a, b) == IF a = "" THEN b ELSE a

parseIndianAddress(addressText) ==
  LET pin == PinMatch(addressText)
      st == FirstHit(addressText, states)
      ct == FirstHit(addressText, cities)
      n == Len(addressText)
      a0 == [country |-> "India"]
      a1 == IF pin > 0 THEN [postalCode |-> addressText[pin]] @@ a0 ELSE a0
      a2 == IF st > 0 THEN [state |-> Capitalize(states[st])] @@ a1 ELSE a1
      a3 == IF ct > 0 THEN [city |-> Capitalize(cities[ct])] @@ a2
            ELSE IF n > 1 THEN [city |-> OrElse(addressText[n - 1], "Unknown")] @@ a2
            ELSE a2
  IN [street |-> addressText, formatted |-> addressText] @@ a3

extractAddress(page) ==
  IF page.addressText = <<>>
  THEN [city |-> "Unknown", state |-> "Unknown", country |-> "India"]
  ELSE parseIndianAddress(page.addressText)

extractName(page) == IF page.title # "" THEN page.title ELSE "Unknown Restaurant"

extractContactInfo(page) ==
  IF page.email # "" THEN [email |-> page.email] ELSE [x \in {} |-> ""]

Days == {"monday", "tuesday", "wednesday", "thursday", "friday", "saturday", "sunday"}
DefaultHours ==
  [d \in Days |-> [open |-> "10:00",
                   close |-> IF d \in {"saturday", "sunday"} THEN "23:00" ELSE "22:00"]]

cuisineTags == <<"North Indian", "South Indian", "Chinese", "Italian", "Continental",
                 "Fast Food", "Vegetarian", "Bakery", "Street Food", "Seafood">>
cuisineKeywords(tag) ==
  CASE tag = "North Indian" -> {"north indian", "punjabi", "dal", "naan", "tandoor", "butter chicken"}
    [] tag = "South Indian" -> {"south indian", "dosa", "idli", "sambar", "vada", "uttapam"}
    [] tag = "Chinese" -> {"chinese", "chow mein", "fried rice", "manchurian", "hakka"}
    [] tag = "Italian" -> {"italian", "pizza", "pasta", "lasagna", "spaghetti"}
    [] tag = "Continental" -> {"continental", "continental food"}
    [] tag = "Fast Food" -> {"fast food", "burger", "sandwich", "fries"}
    [] tag = "Vegetarian" -> {"vegetarian", "veg only", "pure veg"}
    [] tag = "Bakery" -> {"bakery", "cakes", "pastries", "bread", "cookies"}
    [] tag = "Street Food" -> {"street food", "chaat", "pani puri", "bhel puri"}
    [] tag = "Seafood" -> {"seafood", "fish", "prawns", "crab", "lobster"}

TagMatches(tag, words) == cuisineKeywords(tag) \cap words # {}

\* a faulty extractCuisineTypes, against which C23 is tried: no default tag
extractCuisineTypesWithoutDefault(page) ==
  LET Hit(tag) == TagMatches(tag, page.words)
  IN SelectSeq(cuisineTags, Hit)

extractCuisineTypes(page) ==
  LET Hit(tag) == TagMatches(tag, page.words)
      cuisines == SelectSeq(cuisineTags, Hit)
  IN IF Len(cuisines) > 0 THEN cuisines ELSE <<"Indian">>

\* reliability (0.8) is held in hundredths
extractRestaurantData(page, url) ==
  [dataSources |-> <<[source |-> "web-scraping", url |-> url, extractedAt |-> SET,
                      reliability |-> 80]>>,
   name |-> extractName(page),
   address |-> extractAddress(page),
   contactInfo |-> extractContactInfo(page),
   ratings |-> [sources |-> <<>>],
   operatingHours |-> DefaultHours,
   priceRange |-> "mid-range",
   amenities |-> <<>>,
   cuisineTypes |-> extractCuisineTypes(page)]

\* ------------------------------------------------- SchemaValidationService

\* z.string().email(): the addresses zod accepts
ValidEmails == {"chef@spiceroute.in"}
PriceRanges == {"budget", "mid-range", "fine-dining", "luxury"}

\* The fields whose value is a string ('' is the empty one); street and
\* formatted hold the address text (<<>> is the empty one).
IsEmptyString(obj, key) ==
  IF key \in {"street", "formatted"} THEN obj[key] = <<>>
  ELSE IF key \in {"name", "city", "state", "country", "postalCode", "phone",
                   "email", "website", "priceRange"}
  THEN obj[key] = ""
  ELSE FALSE

\* The issues zod reports for z.string().min(1) at obj[key]; with `partial`
\* (deepPartial) an absent key is no issue.
StringMin1Fails(obj, key, partial) ==
  IF key \in DOMAIN obj THEN IsEmptyString(obj, key) ELSE ~partial

addressSchemaIssues(a, partial) ==
  {<<"address", k>> : k \in {k \in {"city", "state", "country"} : StringMin1Fails(a, k, partial)}}

contactInfoSchemaIssues(c) ==
  IF "email" \in DOMAIN c /\ c.email \notin ValidEmails
  THEN {<<"contactInfo", "email">>} ELSE {}

\* restaurantDataSchema.parse(data) (partial = FALSE) and
\* restaurantDataSchema.deepPartial().parse(data) (partial = TRUE): the paths
\* of the issues; the parse throws a ZodError iff there is one.
restaurantDataSchemaIssues(data, partial) ==
  LET Absent(k) == k \notin DOMAIN data
      Missing(k) == IF Absent(k) /\ ~partial THEN {<<k>>} ELSE {}
  IN (IF StringMin1Fails(data, "name", partial) THEN {<<"name">>} ELSE {})
     \cup (IF Absent("address") THEN Missing("address")
           ELSE addressSchemaIssues(data.address, partial))
     \cup (IF Absent("cuisineTypes") THEN Missing("cuisineTypes")
           ELSE IF Len(data.cuisineTypes) < 1 THEN {<<"cuisineTypes">>} ELSE {})
     \cup (IF Absent("contactInfo") THEN Missing("contactInfo")
           ELSE contactInfoSchemaIssues(data.contactInfo))
     \cup Missing("ratings")
     \cup Missing("operatingHours")
     \cup (IF Absent("priceRange") THEN Missing("priceRange")
           ELSE IF data.priceRange \notin PriceRanges THEN {<<"priceRange">>} ELSE {})
     \cup Missing("amenities")
     \cup Missing("dataSources")

\* hasField: path.split('.').reduce((current, key) =>
\*   current && current[key] !== undefined && current[key] !== null
\*           && current[key] !== '', obj) !== undefined
\* `current` is the object on the first key and the boolean the callback
\* returned on every later key; true[key] is undefined.
RECURSIVE hasFieldReduce(_, _, _)
hasFieldReduce(current, path, i) ==
  IF i > Len(path) THEN current
  ELSE LET key == path[i]
           next ==
             IF current.kind = "undefined" THEN current
             ELSE IF current.kind = "boolean"
             THEN (IF current.val THEN [kind |-> "boolean", val |-> FALSE] ELSE current)
             ELSE [kind |-> "boolean",
                   val |-> key \in DOMAIN current.val /\ ~IsEmptyString(current.val, key)]
       IN hasFieldReduce(next, path, i + 1)

hasField(obj, path) ==
  hasFieldReduce([kind |-> "object", val |-> obj], path, 1).kind # "undefined"

requiredFields ==
  <<<<"name">>, <<"address", "city">>, <<"address", "state">>, <<"address", "country">>,
    <<"cuisineTypes">>, <<"contactInfo">>, <<"ratings">>, <<"operatingHours">>,
    <<"priceRange">>, <<"amenities">>, <<"dataSources">>>>
optionalFields ==
  <<<<"address", "street">>, <<"address", "postalCode">>, <<"address", "coordinates">>,
    <<"contactInfo", "phone">>, <<"contactInfo", "email">>, <<"contactInfo", "website">>,
    <<"ratings", "average">>, <<"ratings", "total">>>>

\* Math.round((r / 11) * 70 + (o / 8) * 30), in integers
calculateCompleteness(data) ==
  LET requiredScore == Cardinality({i \in 1..Len(requiredFields) : hasField(data, requiredFields[i])})
      optionalScore == Cardinality({i \in 1..Len(optionalFields) : hasField(data, optionalFields[i])})
      nr == Len(requiredFields)
      no == Len(optionalFields)
  IN (2 * (requiredScore * 70 * no + optionalScore * 30 * nr) + nr * no) \div (2 * nr * no)

\* /^(\+91|0)?[6-9]\d{9}$/ on the phone without blanks and hyphens, and
\* isIndianPhoneNumber: the numbers they accept
ValidPhoneNumbers == {"+91 98765 43210"}
IndianPhoneNumbers == {"+91 98765 43210"}
isValidPhoneNumber(phone) == phone \in ValidPhoneNumbers
isIndianPhoneNumber(phone) == phone \in IndianPhoneNumbers
\* /^[^\s@]+@[^\s@]+\.[^\s@]+$/
isValidEmail(email) == email \in ValidEmails

\* `obj.key` is truthy: present and not '' (nor 0, for a number)
Truthy(obj, key) ==
  /\ key \in DOMAIN obj
  /\ ~IsEmptyString(obj, key)
  /\ (key \in {"average", "total"} => obj[key] # 0)

\* data.contactInfo.phone, data.ratings.average, data.address.coordinates:
\* reading a property of an absent object throws a TypeError
ReadThrows(data) == {"address", "contactInfo", "ratings"} \ DOMAIN data # {}
TypeErrorMessage == "Cannot read properties of undefined"

\* calculateAccuracy, where it does not throw
calculateAccuracy(data) ==
  LET Off(cond, points) == IF cond THEN points ELSE 0
      accuracyScore ==
        100
        - Off(~Truthy(data, "name") \/ Len(data.name) < 2, 10)
        - Off(~Truthy(data.address, "city") \/ ~Truthy(data.address, "state"), 15)
        - Off(Truthy(data.contactInfo, "phone")
              /\ ~isValidPhoneNumber(data.contactInfo.phone), 5)
        - Off(Truthy(data.contactInfo, "email")
              /\ ~isValidEmail(data.contactInfo.email), 5)
        - Off("cuisineTypes" \notin DOMAIN data \/ Len(data.cuisineTypes) = 0, 10)
        - Off(Truthy(data.ratings, "average")
              /\ (data.ratings.average < 0 \/ data.ratings.average > 5), 5)
        - Off("operatingHours" \notin DOMAIN data \/ DOMAIN data.operatingHours = {}, 10)
      capped == IF accuracyScore < 100 THEN accuracyScore ELSE 100
  IN IF capped > 0 THEN capped ELSE 0

\* generateWarnings, where it does not throw; the names and cuisine lists
\* of the model stay below 100 characters and 10 entries
generateWarnings(data) ==
  (IF Truthy(data.contactInfo, "phone") /\ ~isIndianPhoneNumber(data.contactInfo.phone)
   THEN {"Phone number may not be Indian format"} ELSE {})
  \cup (IF "coordinates" \notin DOMAIN data.address
        THEN {"Missing geographical coordinates"} ELSE {})
  \cup (IF Truthy(data.ratings, "average") /\ ~Truthy(data.ratings, "total")
        THEN {"Average rating provided without total count"} ELSE {})

\* what a call that throws hands its caller
Raised == [raised |-> TRUE]

\* a faulty validateRestaurantData, against which C20 is tried: the
\* deepPartial parse is made outside a try block
validateRestaurantDataUnguarded(data) ==
  LET issues == restaurantDataSchemaIssues(data, FALSE)
  IN IF issues = {}
     THEN [isValid |-> TRUE, errors |-> {}, warnings |-> generateWarnings(data),
           completeness |-> calculateCompleteness(data),
           accuracy |-> calculateAccuracy(data)]
     ELSE IF restaurantDataSchemaIssues(data, TRUE) = {}
     THEN [isValid |-> FALSE, errors |-> issues, warnings |-> {},
           completeness |-> calculateCompleteness(data), accuracy |-> 0]
     ELSE Raised

\* validateRestaurantData: the try block, the catch of a ZodError with its
\* inner try, and the catch of any other error
validateRestaurantData(data) ==
  LET issues == restaurantDataSchemaIssues(data, FALSE)
  IN IF issues = {}
     THEN IF ReadThrows(data)
          THEN [isValid |-> TRUE, errors |-> {<<TypeErrorMessage>>}, warnings |-> {},
                completeness |-> calculateCompleteness(data), accuracy |-> 0]
          ELSE [isValid |-> TRUE, errors |-> {}, warnings |-> generateWarnings(data),
                completeness |-> calculateCompleteness(data),
                accuracy |-> calculateAccuracy(data)]
     ELSE [isValid |-> FALSE, errors |-> issues, warnings |-> {},
           completeness |-> IF restaurantDataSchemaIssues(data, TRUE) = {}
                            THEN calculateCompleteness(data) ELSE 0,
           accuracy |-> 0]

\* ------------------------------------------------------------------ state

VARIABLES
  isRunning,        \* PipelineOrchestrator.isRunning
  handles,          \* AgentManager.agents: the handles, as [id, type, status, metrics]
  processingQueue,  \* MemStorage.processingQueue: id -> entry
  restaurants,      \* MemStorage.restaurants: id -> record
  extractionLogs,   \* MemStorage.extractionLogs: id -> log
  systemMetrics,    \* MemStorage.systemMetrics
  calls,            \* each startExtraction call: where it is suspended, and its locals
  audit,            \* per queue entry: what was written to it and invoked for it (history)
  stopped,          \* the calls in flight that a stopExtraction has reached (history)
  agents,           \* MemStorage.agents: the agent records, as [id, type, status]
  geminiService,    \* GeminiService: requestCount and successCount
  proc,             \* the process call in flight on a handle, and its caller's view
  validation,       \* a validateRestaurantData call: its argument and what it returned
  addressCall       \* a WebScrapingService.extractAddress call: its page and what it returned

agentVars == <<agents, geminiService, proc>>
validatorVars == <<validation>>
fetcherVars == <<addressCall>>

vars == <<isRunning, handles, processingQueue, restaurants, extractionLogs,
          systemMetrics, calls, audit, stopped, agents, geminiService, proc,
          validation, addressCall>>

\* MemStorage.initializeDefaultData: the four default agents
StorageAgents ==
  {[id |-> "agent-1", type |-> "web-scraper", status |-> "active"],
   [id |-> "agent-2", type |-> "data-extractor", status |-> "active"],
   [id |-> "agent-3", type |-> "schema-validator", status |-> "processing"],
   [id |-> "agent-4", type |-> "gemini-llm", status |-> "idle"]}
KnownAgentTypes == {"web-scraper", "data-extractor", "schema-validator", "gemini-llm"}

\* the i-th URL of call c's request; the demonstration set has its own three
Url(c, i) == "https://r" \o ToString(c) \o "-" \o ToString(i) \o ".example"
SampleUrlCount == 3

NoData == [name |-> ""]
NoValidation == [isValid |-> FALSE, errors |-> {}, warnings |-> {}, completeness |-> 0,
                 accuracy |-> 0]
NewResult == [success |-> FALSE, totalProcessed |-> 0, successfulExtractions |-> 0,
              failedExtractions |-> 0, errors |-> <<>>]
\* randomUUID(): the ids a call draws are told apart by the call and a count
Uuid(c, k) == <<c, k>>
NoId == <<0, 0>>
Empty == [x \in {} |-> NULL]

\* no process call is in flight
NoHandle == [id |-> "", type |-> "", status |-> "", metrics |-> Empty]
NoCall == [pc |-> "none", id |-> "", kind |-> "", detached |-> NoHandle,
           before |-> Empty, response |-> "", success |-> FALSE, message |-> NULL,
           made |-> 0]

IdleCall == [pc |-> "idle", n |-> 0, i |-> 0, item |-> NoId, outcome |-> "none",
             error |-> NULL, page |-> NoPage, extractedData |-> NoData,
             validationResult |-> NoValidation, restaurant |-> NoId,
             currentTotal |-> 0, result |-> NewResult]

\* the orchestrator, the registry, the repository and the Gemini service as
\* constructed
Constructed ==
  /\ isRunning = FALSE
  /\ handles = {}
  /\ processingQueue = Empty
  /\ restaurants = Empty
  /\ extractionLogs = Empty
  /\ systemMetrics = [totalRestaurants |-> 12847, activeAgents |-> 4,
                      processingRate |-> 145]
  /\ calls = [c \in Calls |-> IdleCall]
  /\ audit = Empty
  /\ stopped = {}
  /\ agents = StorageAgents
  /\ geminiService = [requestCount |-> 0, successCount |-> 0]
  /\ proc = NoCall

NoValidationCall == [pc |-> "none", data |-> NoData, result |-> NoValidation]

\* what the address extraction of the fetcher reads of a page: the trimmed
\* text of the first element each selector matches ("" when it matches
\* none), and the first JSON-LD script
NoAddressPage == [texts |-> <<>>, jsonLd |-> [kind |-> "none"]]
NoAddressCall == [pc |-> "none", page |-> NoAddressPage, result |-> NULL]

Init ==
  /\ Constructed
  /\ validation = NoValidationCall
  /\ addressCall = NoAddressCall

\* a call that was accepted and has not returned
InFlight(c) == calls[c].pc \notin {"idle", "rejected", "returned"}

\* ------------------------------------------------------------- MemStorage

addToQueue(queue, id, item) ==
  queue @@ (id :> [restaurantName |-> item.restaurantName, sourceUrl |-> item.sourceUrl,
                 location |-> item.location, status |-> item.status,
                 startedAt |-> NULL, completedAt |-> NULL, errorMessage |-> NULL])

\* { ...existing, ...item }
updateQueueItem(queue, id, item) ==
  [queue EXCEPT ![id] = item @@ queue[id]]

createRestaurant(store, id, restaurant) == store @@ (id :> restaurant)

createExtractionLog(logs, id, log) == logs @@ (id :> log)

\* a repository call of the persist step resolves or rejects
RepoOutcomes == {"ok", "rejected"}
RepositoryError == "RepositoryError: write failed"

\* ------------------------------------------------------ history variables

\* audit[id]: stages, the status values written to entry id, in order;
\* invoked, the stages invoked for it, in order; raised, the message of the
\* error a stage raised for it; fetchFailed, whether its HTTP request failed;
\* outcome, the Validator's outcome for its record; run, the call that
\* created it.
NewAudit(c, status) ==
  [stages |-> <<status>>, invoked |-> <<>>, raised |-> NULL, fetchFailed |-> FALSE,
   outcome |-> NoValidation, run |-> c]

\* the entry's new status was written, after these stages were invoked
Noted(id, invoked) ==
  [audit EXCEPT ![id].invoked = @ \o invoked,
                ![id].stages = Append(@, processingQueue'[id].status)]

\* ----------------------------------------------------- WebScrapingService

\* what axios.get ends with: a response carrying a page, or a failure
FetchFailures == {"timeout of 30000ms exceeded", "Request failed with status code 404",
                  "getaddrinfo ENOTFOUND"}
Responses ==
  {[ok |-> TRUE, page |-> p, reason |-> ""] : p \in Pages}
    \cup {[ok |-> FALSE, page |-> NoPage, reason |-> r] : r \in FetchFailures}

extractTitle(page) == IF page.title # "" THEN page.title ELSE "Unknown Restaurant"

\* a faulty scrapeRestaurant, against which C6 is tried: the catch block
\* swallows the axios error and the page comes back blank
scrapeRestaurantSwallowing(url, response) ==
  [threw |-> FALSE, message |-> "",
   data |-> [title |-> extractTitle(response.page), rawContent |-> response.page]]

\* `Failed to scrape ${url}: ${error.message}`
FetchError(url, reason) == "Failed to scrape " \o url \o ": " \o reason

scrapeRestaurant(url, response) ==
  IF response.ok
  THEN [threw |-> FALSE, message |-> "",
        data |-> [title |-> extractTitle(response.page), rawContent |-> response.page]]
  ELSE [threw |-> TRUE, message |-> FetchError(url, response.reason),
        data |-> [title |-> "", rawContent |-> NoPage]]

\* ------------------------------------------------------------ GeminiService

\* classifyCuisine: JSON.parse(response.text || "[]"), or the call fails
CuisineOutcomes ==
  {[threw |-> TRUE, message |-> "Gemini cuisine classification failed", value |-> <<>>],
   [threw |-> FALSE, message |-> "", value |-> <<>>],
   [threw |-> FALSE, message |-> "", value |-> <<"North Indian">>]}

\* validateAddress: JSON.parse(response.text || "{}"), or the call fails
AddressOutcomes ==
  {[threw |-> TRUE, message |-> "Gemini address validation failed", value |-> <<>>],
   [threw |-> FALSE, message |-> "", value |-> <<>>],
   [threw |-> FALSE, message |-> "",
    value |-> [city |-> "Pune", state |-> "Maharashtra", country |-> "India"]]}

\* ----------------------------------------------------- PipelineOrchestrator

AlreadyRunning == "Extraction pipeline is already running"

\* the URLs the requests made so far have submitted
RECURSIVE Submitted(_)
Submitted(c) == IF c = 0 THEN 0 ELSE calls[c].n + Submitted(c - 1)

\* startExtraction up to its first await: the guard, the flag, the result
StartExtraction(c) ==
  /\ calls[c].pc = "idle"
  /\ (c > 1) => (calls[c - 1].pc # "idle")
  /\ \E n \in 0..MaxUrls :
       /\ n + Submitted(MaxCalls) <= MaxItems
       /\ IF isRunning
          THEN /\ calls' = [calls EXCEPT ![c].pc = "rejected", ![c].error = AlreadyRunning]
               /\ UNCHANGED isRunning
          ELSE /\ isRunning' = TRUE
               /\ calls' = [calls EXCEPT ![c].pc = "initializing", ![c].n = n]
  /\ UNCHANGED <<handles, processingQueue, restaurants, extractionLogs, systemMetrics,
                 audit, stopped>>
  /\ UNCHANGED <<agentVars, validatorVars, fetcherVars>>

\* BaseAgent's constructor; successRate is held in hundredths of a percent
Rate(part, whole) == (part * 10000) \div whole
NewMetrics == [requestsToday |-> 0, successRate |-> Rate(1, 1), totalProcessed |-> 0,
               errorCount |-> 0, lastError |-> NULL]
NewHandle(a) == [id |-> a.id, type |-> a.type, status |-> "idle", metrics |-> NewMetrics]

\* AgentManager.initialize: for every stored agent of a known type a new
\* handle is constructed and set in the registry under the agent's id
initialize(registry, stored) ==
  LET fresh == {NewHandle(a) : a \in {a \in stored : a.type \in KnownAgentTypes}}
  IN {h \in registry : ~\E f \in fresh : f.id = h.id} \cup fresh

\* startExtraction after `await agentManager.initialize()`
Initialize(c) ==
  /\ calls[c].pc = "initializing"
  /\ handles' = initialize(handles, agents)
  /\ calls' = [calls EXCEPT ![c].pc = "loop"]
  /\ UNCHANGED <<isRunning, processingQueue, restaurants, extractionLogs, systemMetrics,
                 audit, stopped>>
  /\ UNCHANGED <<agentVars, validatorVars, fetcherVars>>

\* a faulty loop body, against which C30 is tried: totalProcessed is raised
\* in the try block
AccountedInTry(c) ==
  LET me == calls[c]
      r == me.result
  IN IF me.outcome = "ok"
     THEN [r EXCEPT !.successfulExtractions = @ + 1, !.totalProcessed = @ + 1]
     ELSE IF me.outcome = "err"
     THEN [r EXCEPT !.failedExtractions = @ + 1,
                    !.errors = Append(@, [url |-> Url(c, me.i), message |-> me.error])]
     ELSE r

\* the body of the for loops after `await this.processRestaurantUrl(url)`
Accounted(c) ==
  LET me == calls[c]
      r == me.result
  IN IF me.outcome = "ok"
     THEN [r EXCEPT !.successfulExtractions = @ + 1, !.totalProcessed = @ + 1]
     ELSE IF me.outcome = "err"
     THEN [r EXCEPT !.failedExtractions = @ + 1, !.totalProcessed = @ + 1,
                    !.errors = Append(@, [url |-> Url(c, me.i), message |-> me.error])]
     ELSE r

\* a faulty success flag, against which C8 is tried: true only when no item
\* of the run failed
RunSucceededWithoutFailure(result) == result.failedExtractions = 0

\* result.success = result.successfulExtractions > 0
RunSucceeded(result) == result.successfulExtractions > 0

UrlCount(c) == IF calls[c].n = 0 THEN SampleUrlCount ELSE calls[c].n

\* The loop of startExtraction: count the item that just ended, then take the
\* next URL (processRestaurantUrl or simulateRestaurantProcessing up to the
\* await of addToQueue), or leave the loop and read the system metrics.
NextUrl(c) ==
  LET me == calls[c]
      id == Uuid(c, me.i + 1)
      demo == me.n = 0
      entry == IF demo
               THEN [restaurantName |-> "Sample Restaurant", sourceUrl |-> Url(c, me.i + 1),
                     location |-> "Mumbai, MH", status |-> "processing"]
               ELSE [restaurantName |-> "Processing...", sourceUrl |-> Url(c, me.i + 1),
                     location |-> "Unknown", status |-> "queued"]
  IN /\ me.pc = "loop"
     /\ IF me.i < UrlCount(c)
        THEN /\ processingQueue' = addToQueue(processingQueue, id, entry)
             /\ audit' = audit @@ (id :> NewAudit(c, entry.status))
             /\ calls' = [calls EXCEPT ![c] =
                  [IdleCall EXCEPT !.pc = IF demo THEN "simulating" ELSE "queued",
                                   !.n = me.n, !.i = me.i + 1, !.item = id,
                                   !.result = Accounted(c)]]
        ELSE /\ calls' = [calls EXCEPT ![c] =
                  [IdleCall EXCEPT !.pc = "metrics", !.n = me.n, !.i = me.i,
                                   !.currentTotal = systemMetrics.totalRestaurants,
                                   !.result = [Accounted(c) EXCEPT
                                                 !.success = RunSucceeded(Accounted(c))]]]
             /\ UNCHANGED <<processingQueue, audit>>
     /\ UNCHANGED <<isRunning, handles, restaurants, extractionLogs, systemMetrics, stopped>>
     /\ UNCHANGED <<agentVars, validatorVars, fetcherVars>>

\* processRestaurantUrl (or simulateRestaurantProcessing) returns or throws:
\* its locals are gone, the loop of startExtraction resumes
Ended(c, outcome, message) ==
  [IdleCall EXCEPT !.pc = "loop", !.n = calls[c].n, !.i = calls[c].i,
                   !.result = calls[c].result, !.outcome = outcome, !.error = message]

\* a faulty catch block, against which C4 is tried: the message is dropped
CatchUpdateWithoutMessage(queue, id, message) ==
  updateQueueItem(queue, id, [status |-> "failed", completedAt |-> SET])

\* a faulty catch block, against which C25 is tried: the entry keeps its
\* stage
CatchUpdateKeepingStatus(queue, id, message) ==
  updateQueueItem(queue, id, [errorMessage |-> message, completedAt |-> SET])

\* a faulty catch block, against which C11 is tried: no completion time
CatchUpdateWithoutCompletedAt(queue, id, message) ==
  updateQueueItem(queue, id, [status |-> "failed", errorMessage |-> message])

\* the catch block of processRestaurantUrl
CatchUpdate(queue, id, message) ==
  updateQueueItem(queue, id, [status |-> "failed", completedAt |-> SET,
                              errorMessage |-> message])

\* an error reaches the catch block: the entry is marked and the error
\* rethrown (outcome: the Validator's outcome for the record, if it has one)
Throw(c, invoked, message, outcome) ==
  LET id == calls[c].item
  IN /\ processingQueue' = CatchUpdate(processingQueue, id, message)
     /\ calls' = [calls EXCEPT ![c] = Ended(c, "err", message)]
     /\ audit' = [audit EXCEPT ![id].invoked = @ \o invoked,
                               ![id].stages = Append(@, processingQueue'[id].status),
                               ![id].raised = message,
                               ![id].outcome = outcome]

\* processRestaurantUrl: the entry leaves `queued`
BeginItem(c) ==
  LET id == calls[c].item
  IN /\ calls[c].pc = "queued"
     /\ processingQueue' = updateQueueItem(processingQueue, id,
                                           [status |-> "scraping", startedAt |-> SET])
     /\ audit' = Noted(id, <<>>)
     /\ calls' = [calls EXCEPT ![c].pc = "fetching"]
     /\ UNCHANGED <<isRunning, handles, restaurants, extractionLogs, systemMetrics, stopped>>
     /\ UNCHANGED <<agentVars, validatorVars, fetcherVars>>

\* Step 1: the agent lookup, then webScrapingService.scrapeRestaurant(url)
Fetch(c) ==
  LET id == calls[c].item
  IN /\ calls[c].pc = "fetching"
     /\ IF ~\E h \in handles : h.type = "web-scraper"
        THEN Throw(c, <<>>, "No web scraper agents available", NoValidation)
        ELSE \E response \in Responses :
               LET scraped == scrapeRestaurant(Url(c, calls[c].i), response)
               IN IF scraped.threw
                  THEN /\ processingQueue' = CatchUpdate(processingQueue, id, scraped.message)
                       /\ calls' = [calls EXCEPT ![c] = Ended(c, "err", scraped.message)]
                       /\ audit' = [audit EXCEPT
                            ![id].invoked = Append(@, "fetch"),
                            ![id].stages = Append(@, processingQueue'[id].status),
                            ![id].raised = scraped.message,
                            ![id].fetchFailed = ~response.ok]
                  ELSE /\ processingQueue' = updateQueueItem(processingQueue, id,
                            [restaurantName |-> scraped.data.title, status |-> "extracting"])
                       /\ calls' = [calls EXCEPT ![c].pc = "extracting",
                                                 ![c].page = scraped.data.rawContent]
                       /\ audit' = [audit EXCEPT
                            ![id].invoked = Append(@, "fetch"),
                            ![id].stages = Append(@, processingQueue'[id].status),
                            ![id].fetchFailed = ~response.ok]
     /\ UNCHANGED <<isRunning, handles, restaurants, extractionLogs, systemMetrics, stopped>>
     /\ UNCHANGED <<agentVars, validatorVars, fetcherVars>>

\* Step 2: dataExtractionService.extractRestaurantData, then the entry
\* enters `validating`
Extract(c) ==
  LET id == calls[c].item
  IN /\ calls[c].pc = "extracting"
     /\ processingQueue' = updateQueueItem(processingQueue, id, [status |-> "validating"])
     /\ calls' = [calls EXCEPT ![c].pc = "validating",
                    ![c].extractedData = extractRestaurantData(calls[c].page, Url(c, calls[c].i))]
     /\ audit' = Noted(id, <<"extract">>)
     /\ UNCHANGED <<isRunning, handles, restaurants, extractionLogs, systemMetrics, stopped>>
     /\ UNCHANGED <<agentVars, validatorVars, fetcherVars>>

\* a faulty Step 4 test, against which C3 is tried: the validity of the
\* record is not looked at
NeedsLLMByCompleteness(validationResult) == validationResult.completeness < 80

\* if (!validationResult.isValid || validationResult.completeness < 80)
NeedsLLM(validationResult) ==
  ~validationResult.isValid \/ validationResult.completeness < 80

\* the record handed to storage.createRestaurant
InsertRestaurant(c, finalData, validationResult) ==
  [item |-> calls[c].item,
   name |-> IF "name" \in DOMAIN finalData /\ finalData.name # ""
            THEN finalData.name ELSE "Unknown Restaurant",
   address |-> IF "address" \in DOMAIN finalData THEN finalData.address
               ELSE [city |-> "Unknown", state |-> "Unknown", country |-> "India"],
   cuisineTypes |-> IF "cuisineTypes" \in DOMAIN finalData THEN finalData.cuisineTypes
                    ELSE <<"Indian">>,
   contactInfo |-> finalData.contactInfo,
   ratings |-> finalData.ratings,
   operatingHours |-> finalData.operatingHours,
   priceRange |-> finalData.priceRange,
   amenities |-> finalData.amenities,
   dataSources |-> finalData.dataSources,
   status |-> IF validationResult.isValid THEN "validated" ELSE "pending",
   completeness |-> ToString(validationResult.completeness),
   website |-> Url(c, calls[c].i)]

\* Step 5, first call: storage.createRestaurant resolves or rejects
Persist(c, finalData, validationResult, invoked, out) ==
  LET id == calls[c].item
  IN IF out = "ok"
     THEN /\ restaurants' = createRestaurant(restaurants, id,
                                             InsertRestaurant(c, finalData, validationResult))
          /\ systemMetrics' = [systemMetrics EXCEPT
                                 !.totalRestaurants = Cardinality(DOMAIN restaurants')]
          /\ calls' = [calls EXCEPT ![c].pc = "persisted", ![c].restaurant = id,
                                    ![c].validationResult = validationResult]
          /\ audit' = [audit EXCEPT ![id].invoked = @ \o invoked \o <<"persist">>,
                                    ![id].outcome = validationResult]
          /\ UNCHANGED processingQueue
     ELSE /\ Throw(c, invoked \o <<"persist">>, RepositoryError, validationResult)
          /\ UNCHANGED <<restaurants, systemMetrics>>

\* Step 3: schemaValidationService.validateRestaurantData, then Step 4's
\* test: the entry enters `llm_processing`, or Step 5 starts
Validate(c) ==
  LET id == calls[c].item
      validationResult == validateRestaurantData(calls[c].extractedData)
  IN /\ calls[c].pc = "validating"
     /\ IF NeedsLLM(validationResult)
        THEN /\ processingQueue' = updateQueueItem(processingQueue, id,
                                                   [status |-> "llm_processing"])
             /\ calls' = [calls EXCEPT ![c].pc = "llm", ![c].validationResult = validationResult]
             /\ audit' = [audit EXCEPT ![id].invoked = Append(@, "validate"),
                                       ![id].stages = Append(@, processingQueue'[id].status),
                                       ![id].outcome = validationResult]
             /\ UNCHANGED <<restaurants, systemMetrics>>
        ELSE \E out \in RepoOutcomes :
               Persist(c, calls[c].extractedData, validationResult, <<"validate">>, out)
     /\ UNCHANGED <<isRunning, handles, extractionLogs, stopped>>
     /\ UNCHANGED <<agentVars, validatorVars, fetcherVars>>

\* Step 4: the Gemini calls the record needs, then Step 5 starts
Synthesize(c) ==
  LET me == calls[c]
      data == me.extractedData
      gemini == \E h \in handles : h.type = "gemini-llm"
      needCuisine == gemini /\ ("cuisineTypes" \notin DOMAIN data \/ Len(data.cuisineTypes) = 0)
      needAddress == /\ gemini
                     /\ "address" \in DOMAIN data
                     /\ "Missing geographical coordinates" \in me.validationResult.warnings
      called == IF needCuisine \/ needAddress THEN <<"synthesize">> ELSE <<>>
  IN /\ me.pc = "llm"
     /\ \E cuisine \in CuisineOutcomes, address \in AddressOutcomes, out \in RepoOutcomes :
          IF needCuisine /\ cuisine.threw
          THEN /\ Throw(c, called, cuisine.message, me.validationResult)
               /\ UNCHANGED <<restaurants, systemMetrics>>
          ELSE IF needAddress /\ address.threw
          THEN /\ Throw(c, called, address.message, me.validationResult)
               /\ UNCHANGED <<restaurants, systemMetrics>>
          ELSE LET d1 == IF needCuisine
                         THEN [cuisineTypes |-> cuisine.value] @@ data ELSE data
                   d2 == IF needAddress
                         THEN [d1 EXCEPT !.address = address.value @@ d1.address] ELSE d1
               IN Persist(c, d2, me.validationResult, called, out)
     /\ UNCHANGED <<isRunning, handles, extractionLogs, stopped>>
     /\ UNCHANGED <<agentVars, validatorVars, fetcherVars>>

\* Step 5, second call: the entry is marked `completed`, or the update rejects
MarkCompleted(c) ==
  LET id == calls[c].item
  IN /\ calls[c].pc = "persisted"
     /\ \E out \in RepoOutcomes :
          IF out = "ok"
          THEN /\ processingQueue' = updateQueueItem(processingQueue, id,
                                        [status |-> "completed", completedAt |-> SET])
               /\ calls' = [calls EXCEPT ![c].pc = "logging"]
               /\ audit' = Noted(id, <<>>)
          ELSE Throw(c, <<>>, RepositoryError, audit[id].outcome)
     /\ UNCHANGED <<isRunning, handles, restaurants, extractionLogs, systemMetrics, stopped>>
     /\ UNCHANGED <<agentVars, validatorVars, fetcherVars>>

\* Step 5, third call: storage.createExtractionLog resolves or rejects
LogExtraction(c) ==
  LET id == calls[c].item
  IN /\ calls[c].pc = "logging"
     /\ \E out \in RepoOutcomes :
          IF out = "ok"
          THEN /\ extractionLogs' = createExtractionLog(extractionLogs, id,
                    [restaurantId |-> calls[c].restaurant, action |-> "full_extraction",
                     status |-> "success"])
               /\ calls' = [calls EXCEPT ![c] = Ended(c, "ok", NULL)]
               /\ UNCHANGED <<processingQueue, audit>>
          ELSE Throw(c, <<>>, RepositoryError, audit[id].outcome) /\ UNCHANGED extractionLogs
     /\ UNCHANGED <<isRunning, handles, restaurants, systemMetrics, stopped>>
     /\ UNCHANGED <<agentVars, validatorVars, fetcherVars>>

\* simulateRestaurantProcessing after its delay: the sample restaurant
\* (ratings.average 4.2 in tenths, reliability 0.85 in hundredths)
SampleHours ==
  [d \in Days |-> [open |-> "10:00",
                   close |-> IF d \in {"friday", "saturday"} THEN "23:00" ELSE "22:00"]]

SampleRestaurant(c) ==
  [item |-> calls[c].item,
   name |-> "Restaurant 7",
   address |-> [street |-> <<"sample street">>, city |-> "Mumbai", state |-> "Maharashtra",
                country |-> "India",
                formatted |-> <<"sample street", "mumbai", "maharashtra", "india">>],
   cuisineTypes |-> <<"North Indian", "Chinese">>,
   contactInfo |-> [phone |-> "+91 98765 43210", website |-> Url(c, calls[c].i)],
   ratings |-> [average |-> 42, total |-> 150, sources |-> <<>>],
   operatingHours |-> SampleHours,
   priceRange |-> "mid-range",
   amenities |-> <<"WiFi", "Parking", "Air Conditioning">>,
   dataSources |-> <<[source |-> "web-scraping", url |-> Url(c, calls[c].i),
                      extractedAt |-> SET, reliability |-> 85]>>,
   status |-> "validated",
   completeness |-> "89.5",
   website |-> Url(c, calls[c].i)]

SimulatePersist(c) ==
  LET id == calls[c].item
  IN /\ calls[c].pc = "simulating"
     /\ restaurants' = createRestaurant(restaurants, id, SampleRestaurant(c))
     /\ systemMetrics' = [systemMetrics EXCEPT
                            !.totalRestaurants = Cardinality(DOMAIN restaurants')]
     /\ calls' = [calls EXCEPT ![c].pc = "simulated"]
     /\ audit' = [audit EXCEPT ![id].invoked = Append(@, "persist")]
     /\ UNCHANGED <<isRunning, handles, processingQueue, extractionLogs, stopped>>
     /\ UNCHANGED <<agentVars, validatorVars, fetcherVars>>

SimulateComplete(c) ==
  LET id == calls[c].item
  IN /\ calls[c].pc = "simulated"
     /\ processingQueue' = updateQueueItem(processingQueue, id,
                                           [status |-> "completed", completedAt |-> SET])
     /\ calls' = [calls EXCEPT ![c] = Ended(c, "ok", NULL)]
     /\ audit' = Noted(id, <<>>)
     /\ UNCHANGED <<isRunning, handles, restaurants, extractionLogs, systemMetrics, stopped>>
     /\ UNCHANGED <<agentVars, validatorVars, fetcherVars>>

\* updateSystemMetrics, from the metrics read when the loop ended
UpdateSystemMetrics(c) ==
  LET result == calls[c].result
  IN /\ calls[c].pc = "metrics"
     /\ systemMetrics' =
          [systemMetrics EXCEPT
             !.totalRestaurants = calls[c].currentTotal + result.successfulExtractions,
             !.processingRate = (result.totalProcessed * 60) \div 10]
     /\ calls' = [calls EXCEPT ![c].pc = "finishing"]
     /\ UNCHANGED <<isRunning, handles, processingQueue, restaurants, extractionLogs,
                    audit, stopped>>
     /\ UNCHANGED <<agentVars, validatorVars, fetcherVars>>

\* finally { this.isRunning = false }; return result
Finish(c) ==
  /\ calls[c].pc = "finishing"
  /\ isRunning' = FALSE
  /\ calls' = [calls EXCEPT ![c].pc = "returned"]
  /\ stopped' = stopped \ {c}
  /\ UNCHANGED <<handles, processingQueue, restaurants, extractionLogs, systemMetrics,
                 audit>>
  /\ UNCHANGED <<agentVars, validatorVars, fetcherVars>>

\* stopExtraction; a call that finds the flag clear changes nothing
StopExtraction ==
  /\ isRunning
  /\ isRunning' = FALSE
  /\ stopped' = stopped \cup {c \in Calls : InFlight(c)}
  /\ UNCHANGED <<handles, processingQueue, restaurants, extractionLogs, systemMetrics,
                 calls, audit>>
  /\ UNCHANGED <<agentVars, validatorVars, fetcherVars>>

Next ==
  \/ \E c \in Calls :
       \/ StartExtraction(c) \/ Initialize(c) \/ NextUrl(c) \/ BeginItem(c) \/ Fetch(c)
       \/ Extract(c) \/ Validate(c) \/ Synthesize(c) \/ MarkCompleted(c)
       \/ LogExtraction(c) \/ SimulatePersist(c) \/ SimulateComplete(c)
       \/ UpdateSystemMetrics(c) \/ Finish(c)
  \/ StopExtraction

Spec == Init /\ [][Next]_vars

\* ------------------------------------------------------ the stage handles

\* process calls made on handles over the life of the process
MaxProcessCalls == 3
\* agents created in the repository besides the default four
MaxCreated == 1

pipelineVars == <<isRunning, processingQueue, restaurants, extractionLogs, systemMetrics,
                  calls, audit, stopped>>
runVars == <<isRunning, processingQueue, restaurants, extractionLogs, calls, audit, stopped>>

\* a faulty updateMetrics, against which C15 is tried: a failed call is not
\* counted as processed
updateMetricsCountingSuccesses(metrics, success, error) ==
  LET totalProcessed == IF success THEN metrics.totalProcessed + 1 ELSE metrics.totalProcessed
      errorCount == IF success THEN metrics.errorCount ELSE metrics.errorCount + 1
  IN [requestsToday |-> metrics.requestsToday + 1,
      totalProcessed |-> totalProcessed,
      errorCount |-> errorCount,
      lastError |-> IF success THEN metrics.lastError ELSE error,
      successRate |-> IF totalProcessed > 0
                      THEN Rate(totalProcessed - errorCount, totalProcessed) ELSE 0]

\* BaseAgent.updateMetrics
updateMetrics(metrics, success, error) ==
  LET totalProcessed == metrics.totalProcessed + 1
      errorCount == IF success THEN metrics.errorCount ELSE metrics.errorCount + 1
  IN [requestsToday |-> metrics.requestsToday + 1,
      totalProcessed |-> totalProcessed,
      errorCount |-> errorCount,
      lastError |-> IF success THEN metrics.lastError ELSE error,
      successRate |-> Rate(totalProcessed - errorCount, totalProcessed)]

\* a faulty updateAgentStatus, against which C17 is tried: the record is
\* not written
updateAgentStatusDropped(stored, id, status) == stored

\* MemStorage.updateAgentStatus
updateAgentStatus(stored, id, status) ==
  {IF a.id = id THEN [a EXCEPT !.status = status] ELSE a : a \in stored}

\* MemStorage.updateActiveAgentsCount
updateActiveAgentsCount(stored) ==
  Cardinality({a \in stored : a.status = "active" \/ a.status = "processing"})

\* storage.updateAgentStatus(id, status), as BaseAgent.updateStatus awaits it:
\* the record is written, and the active agents recounted, if it exists
StoreAgentStatus(id, status) ==
  /\ agents' = updateAgentStatus(agents, id, status)
  /\ systemMetrics' =
       IF \E a \in agents : a.id = id
       THEN [systemMetrics EXCEPT !.activeAgents = updateActiveAgentsCount(agents')]
       ELSE systemMetrics

\* GeminiService.getMetrics
geminiGetMetrics(service) ==
  [requestsToday |-> service.requestCount,
   successRate |-> IF service.requestCount > 0
                   THEN Rate(service.successCount, service.requestCount) ELSE 0,
   totalProcessed |-> service.successCount]

\* BaseAgent.getMetrics, and GeminiLLMAgent.getMetrics:
\* { ...super.getMetrics(), ...geminiMetrics }
getMetrics(handle, service) ==
  IF handle.type = "gemini-llm" THEN geminiGetMetrics(service) @@ handle.metrics
  ELSE handle.metrics

\* the status a handle takes when its process starts
BusyStatus(type) == IF type = "schema-validator" THEN "processing" ELSE "active"

\* data.type of a GeminiLLMAgent.process call; the other handles take a unit
ProcessKinds(type) == IF type = "gemini-llm" THEN {"cuisine", "unknown"} ELSE {"unit"}
ServiceFailure == "service call failed"

\* How the service call of a process call settles.  generateContent of a
\* GeminiService call rejects (a timeout, a transport or quota error), or
\* resolves with a text that is JSON, is empty, or does not parse; the
\* services of the other handles resolve or reject.
ServiceResponses(kind) ==
  IF kind = "cuisine" THEN {"json", "empty", "malformed", "rejected"}
  ELSE {"resolved", "rejected"}
\* generateContent resolved: classifyCuisine reaches this.successCount++
Responded(response) == response \in {"json", "empty", "malformed"}
\* the service call returns a value: JSON.parse(response.text || "[]") of
\* a JSON text or of an empty one
Returns(response) == response \in {"resolved", "json", "empty"}
UnknownKind == "Unknown processing type: unknown"

\* the handle object the call in flight was made on: the registered one, or
\* the one initialize has replaced in the registry meanwhile
Target ==
  IF proc.detached # NoHandle THEN proc.detached
  ELSE CHOOSE h \in handles : h.id = proc.id

\* the call in flight writes its handle object
WriteTarget(handle, nextProc) ==
  IF proc.detached # NoHandle
  THEN /\ proc' = [nextProc EXCEPT !.detached = handle]
       /\ UNCHANGED handles
  ELSE /\ proc' = nextProc
       /\ handles' = (handles \ {Target}) \cup {handle}

\* GET /api/agents: agentManager.initialize()
AgentInitialize ==
  /\ handles' = initialize(handles, agents)
  /\ proc' = IF /\ proc.pc # "none"
                /\ proc.detached = NoHandle
                /\ Target \notin handles'
             THEN [proc EXCEPT !.detached = Target] ELSE proc
  /\ UNCHANGED <<agents, geminiService>>
  /\ UNCHANGED <<pipelineVars, validatorVars, fetcherVars>>

\* the types of the agents created
CreatedTypes == {"web-scraper", "custom"}

\* storage.createAgent
CreateAgent ==
  /\ Cardinality(agents) < Cardinality(StorageAgents) + MaxCreated
  /\ \E type \in CreatedTypes :
       agents' = agents \cup {[id |-> "agent-" \o ToString(Cardinality(agents) + 1),
                               type |-> type, status |-> "idle"]}
  /\ systemMetrics' = [systemMetrics EXCEPT
                         !.activeAgents = updateActiveAgentsCount(agents')]
  /\ UNCHANGED <<handles, geminiService, proc>>
  /\ UNCHANGED <<runVars, validatorVars, fetcherVars>>

\* process up to `await this.updateStatus(...)`
ProcessBegin ==
  /\ proc.pc = "none"
  /\ proc.made < MaxProcessCalls
  /\ \E h \in handles : \E kind \in ProcessKinds(h.type) :
       /\ handles' = (handles \ {h}) \cup {[h EXCEPT !.status = BusyStatus(h.type)]}
       /\ StoreAgentStatus(h.id, BusyStatus(h.type))
       /\ proc' = [NoCall EXCEPT !.pc = "begun", !.id = h.id, !.kind = kind,
                                 !.before = h.metrics, !.made = proc.made + 1]
  /\ UNCHANGED geminiService
  /\ UNCHANGED <<runVars, validatorVars, fetcherVars>>

\* the catch block of process
ProcessFailed(message, response) ==
  /\ WriteTarget([Target EXCEPT !.metrics = updateMetrics(@, FALSE, message),
                                !.status = "error"],
                 [proc EXCEPT !.pc = "settled", !.success = FALSE, !.message = message,
                              !.response = response])
  /\ StoreAgentStatus(proc.id, "error")

\* process calls its service, or throws on an unknown data.type
ProcessCall ==
  /\ proc.pc = "begun"
  /\ IF proc.kind = "unknown"
     THEN ProcessFailed(UnknownKind, "") /\ UNCHANGED geminiService
     ELSE /\ proc' = [proc EXCEPT !.pc = "called"]
          /\ geminiService' = IF proc.kind = "cuisine"
                               THEN [geminiService EXCEPT !.requestCount = @ + 1]
                               ELSE geminiService
          /\ UNCHANGED <<handles, agents, systemMetrics>>
  /\ UNCHANGED <<runVars, validatorVars, fetcherVars>>

\* the service call settles: process up to its last `await this.updateStatus(...)`
ProcessSettle ==
  /\ proc.pc = "called"
  /\ \E response \in ServiceResponses(proc.kind) :
       /\ geminiService' = IF proc.kind = "cuisine" /\ Responded(response)
                            THEN [geminiService EXCEPT !.successCount = @ + 1]
                            ELSE geminiService
       /\ IF Returns(response)
          THEN /\ WriteTarget([Target EXCEPT !.metrics = updateMetrics(@, TRUE, NULL),
                                             !.status = "idle"],
                              [proc EXCEPT !.pc = "settled", !.success = TRUE,
                                           !.response = response])
               /\ StoreAgentStatus(proc.id, "idle")
          ELSE ProcessFailed(ServiceFailure, response)
  /\ UNCHANGED <<runVars, validatorVars, fetcherVars>>

\* process returns its result or rethrows
ProcessReturn ==
  /\ proc.pc = "settled"
  /\ proc' = [NoCall EXCEPT !.made = proc.made]
  /\ UNCHANGED <<handles, agents, geminiService>>
  /\ UNCHANGED <<pipelineVars, validatorVars, fetcherVars>>

AgentNext ==
  \/ AgentInitialize \/ CreateAgent
  \/ ProcessBegin \/ ProcessCall \/ ProcessSettle \/ ProcessReturn

AgentSpec == Init /\ [][AgentNext]_vars

\* ------------------------------------------- the repository's restaurants

\* startExtraction callers in the runs that deletes are interleaved with
MaxStoreCalls == 1
StoreCalls == 1..MaxStoreCalls

\* the ids DELETE /api/restaurants/:id is called with: the stored ones and
\* one that is not stored
DeletableIds == DOMAIN restaurants \cup {NoId}

\* MemStorage.deleteRestaurant, as DELETE /api/restaurants/:id calls it
DeleteRestaurant(id) ==
  /\ restaurants' = [r \in DOMAIN restaurants \ {id} |-> restaurants[r]]
  /\ systemMetrics' = [systemMetrics EXCEPT
                         !.totalRestaurants = Cardinality(DOMAIN restaurants')]
  /\ UNCHANGED <<isRunning, handles, processingQueue, extractionLogs, calls, audit, stopped>>
  /\ UNCHANGED <<agentVars, validatorVars, fetcherVars>>

\* the runs of the pipeline, started by one caller at a time, and the deletes
StoreNext ==
  \/ \E c \in StoreCalls :
       \/ StartExtraction(c) \/ Initialize(c) \/ NextUrl(c) \/ BeginItem(c) \/ Fetch(c)
       \/ Extract(c) \/ Validate(c) \/ Synthesize(c) \/ MarkCompleted(c)
       \/ LogExtraction(c) \/ SimulatePersist(c) \/ SimulateComplete(c)
       \/ UpdateSystemMetrics(c) \/ Finish(c)
  \/ StopExtraction
  \/ \E id \in DeletableIds : DeleteRestaurant(id)

StoreSpec == Init /\ [][StoreNext]_vars

\* ------------------------------------------- SchemaValidationService calls

\* obj without the property key
Without(obj, key) == [k \in DOMAIN obj \ {key} |-> obj[k]]

\* The records validateRestaurantData is called with: every combination of
\* the property values below, whole or with one property left out.
CandidateNames == {"Spice Route", "A", ""}
CandidateAddresses ==
  {parseIndianAddress(PageFull.addressText), parseIndianAddress(PageNoState.addressText),
   [city |-> "", state |-> "Goa", country |-> "India"]}
CandidateContacts ==
  {[x \in {} |-> ""], [email |-> "chef@spiceroute.in"], [email |-> "chef at spiceroute"],
   [phone |-> "+91 98765 43210"], [phone |-> "12345", email |-> "chef@spiceroute.in"]}
CandidateRatings ==
  {[sources |-> <<>>], [sources |-> <<>>, average |-> 4],
   [sources |-> <<>>, average |-> 4, total |-> 10]}
CandidateHours == {DefaultHours, Empty}
CandidatePrices == {"mid-range", "cheap"}
CandidateCuisines == {<<"Indian">>, <<>>}
CandidateSources ==
  {<<[source |-> "web-scraping", url |-> Url(1, 1), extractedAt |-> SET,
      reliability |-> 80]>>,
   <<>>}
CandidateProperties ==
  {"name", "address", "cuisineTypes", "contactInfo", "ratings", "operatingHours",
   "priceRange", "amenities", "dataSources"}

CandidateRecords ==
  LET whole ==
        {[name |-> name, address |-> address, cuisineTypes |-> cuisineTypes,
          contactInfo |-> contactInfo, ratings |-> ratings, operatingHours |-> hours,
          priceRange |-> priceRange, amenities |-> <<>>,
          dataSources |-> dataSources] :
           dataSources \in CandidateSources, name \in CandidateNames, address \in CandidateAddresses,
           cuisineTypes \in CandidateCuisines, contactInfo \in CandidateContacts,
           ratings \in CandidateRatings, hours \in CandidateHours,
           priceRange \in CandidatePrices}
  IN whole \cup {Without(data, key) : data \in whole, key \in CandidateProperties}

ValidatorInit ==
  /\ Constructed
  /\ addressCall = NoAddressCall
  /\ validation \in {[pc |-> "given", data |-> data, result |-> NoValidation] :
                        data \in CandidateRecords}

\* schemaValidationService.validateRestaurantData(data) returns
ValidateRecord ==
  /\ validation.pc = "given"
  /\ validation' = [validation EXCEPT !.pc = "returned",
                                      !.result = validateRestaurantData(validation.data)]
  /\ UNCHANGED <<pipelineVars, handles, agentVars, fetcherVars>>

ValidatorNext == ValidateRecord

ValidatorSpec == ValidatorInit /\ [][ValidatorNext]_vars

\* --------------------------------------- WebScrapingService.extractAddress

addressSelectors ==
  <<"[itemtype*=PostalAddress]", ".address", ".location", ".restaurant-address",
    "[data-testid=address]", ".contact-address">>

\* `${streetAddress || ''} ${addressLocality || ''}`.trim()
StreetAndLocality(address) ==
  LET street == IF "streetAddress" \in DOMAIN address THEN address.streetAddress ELSE ""
      locality == IF "addressLocality" \in DOMAIN address THEN address.addressLocality ELSE ""
  IN IF street = "" THEN locality
     ELSE IF locality = "" THEN street
     ELSE street \o " " \o locality

\* the part of extractAddress after the selectors: the JSON-LD script, if
\* there is one and it parses, gives data.address as a string or as its
\* street and locality
jsonLdAddress(jsonLd) ==
  IF jsonLd.kind = "string" /\ jsonLd.text # "" THEN jsonLd.text
  ELSE IF jsonLd.kind = "object" /\ StreetAndLocality(jsonLd.address) # ""
  THEN StreetAndLocality(jsonLd.address)
  ELSE NULL

\* WebScrapingService.extractAddress: the first selector whose text is
\* longer than 10 characters, and the JSON-LD script only when there is none
WebScrapingService_extractAddress(page) ==
  LET hits == {i \in 1..Len(addressSelectors) : Len(page.texts[i]) > 10}
  IN IF hits # {}
     THEN page.texts[CHOOSE i \in hits : \A j \in hits : i <= j]
     ELSE jsonLdAddress(page.jsonLd)

\* The pages extractAddress is called with: every selector with no text, a
\* short one or a long one, and a JSON-LD script that is absent, does not
\* parse, has no address, or has one as a string or as an object ("" is a
\* property that is absent or empty).
SelectorTexts == {"", "Pune", "12 MG Road, Pune 411001"}
JsonLdScripts ==
  {[kind |-> "none"], [kind |-> "malformed"], [kind |-> "no address"],
   [kind |-> "string", text |-> ""],
   [kind |-> "string", text |-> "14 FC Road, Pune"],
   [kind |-> "object", address |-> [streetAddress |-> "", addressLocality |-> ""]],
   [kind |-> "object", address |-> [streetAddress |-> "14 FC Road",
                                    addressLocality |-> "Pune"]],
   [kind |-> "object", address |-> [streetAddress |-> "", addressLocality |-> "Pune"]]}
AddressPages ==
  [texts : [1..Len(addressSelectors) -> SelectorTexts], jsonLd : JsonLdScripts]

FetcherInit ==
  /\ Constructed
  /\ validation = NoValidationCall
  /\ addressCall \in {[pc |-> "given", page |-> page, result |-> NULL] :
                         page \in AddressPages}

\* this.extractAddress($) returns
ExtractAddress ==
  /\ addressCall.pc = "given"
  /\ addressCall' = [addressCall EXCEPT
                       !.pc = "returned",
                       !.result = WebScrapingService_extractAddress(addressCall.page)]
  /\ UNCHANGED <<pipelineVars, handles, agentVars, validatorVars>>

FetcherNext == ExtractAddress

FetcherSpec == FetcherInit /\ [][FetcherNext]_vars

\* ------------------------------------------------------------ properties

Range(s) == {s[i] : i \in 1..Len(s)}
IsPrefix(s, t) == Len(s) <= Len(t) /\ \A i \in 1..Len(s) : s[i] = t[i]

\* the queue entries processRestaurantUrl created (the others are the
\* demonstration entries of simulateRestaurantProcessing)
Items == {id \in DOMAIN audit : calls[audit[id].run].n > 0}
ItemsOf(c) == {id \in DOMAIN audit : audit[id].run = c}

\* the restaurant records created for queue entry id
RecordsOf(id) == {r \in DOMAIN restaurants : restaurants[r].item = id}

\* the stage names as the queue stores them: fetching is `scraping`,
\* synthesizing is `llm_processing`
Stages == {"queued", "scraping", "extracting", "validating", "llm_processing",
           "completed", "failed"}
Terminal == {"completed", "failed"}
Lifecycles ==
  {<<"queued", "scraping", "extracting", "validating", "completed">>,
   <<"queued", "scraping", "extracting", "validating", "llm_processing", "completed">>}

WellFormedStages(s) ==
  \E life \in Lifecycles :
    \/ IsPrefix(s, life)
    \/ /\ Len(s) > 1
       /\ s[Len(s)] = "failed"
       /\ IsPrefix(SubSeq(s, 1, Len(s) - 1), life)
       /\ \A i \in 1..(Len(s) - 1) : s[i] \notin Terminal

\* C1: the stage values written to an entry of processRestaurantUrl are a
\* prefix of queued, scraping, extracting, validating, [llm_processing,]
\* completed, or such a prefix of non-terminal stages followed by failed;
\* nothing is written after completed or failed.
C1_StageSequence == \A id \in Items : WellFormedStages(audit[id].stages)

\* C2: at most one accepted startExtraction call has not returned.
C2_SingleRunInFlight == Cardinality({c \in Calls : InFlight(c)}) <= 1

\* the Validator's outcome asks for the synthesizing stage
OutcomeNeedsSynthesis(outcome) == ~outcome.isValid \/ outcome.completeness < 80

\* C3: an entry whose record the Validator has judged has been in
\* llm_processing iff the outcome is invalid or its completeness is below
\* 80, no entry is in llm_processing before the Validator judged it, and
\* with a valid outcome of completeness >= 80 `completed` is written right
\* after `validating`.
C3_SynthesizingIffNeeded ==
  \A id \in Items :
    LET a == audit[id]
        needed == OutcomeNeedsSynthesis(a.outcome)
    IN /\ "llm_processing" \in Range(a.stages) => "validate" \in Range(a.invoked)
       /\ "validate" \in Range(a.invoked) =>
            /\ "llm_processing" \in Range(a.stages) <=> needed
            /\ ~needed => \A i \in 2..Len(a.stages) :
                            a.stages[i] = "completed" => a.stages[i - 1] = "validating"

\* one entry completed through llm_processing, another completed without it
C3_BothPathsTaken ==
  \E id1, id2 \in Items :
    /\ processingQueue[id1].status = "completed"
    /\ OutcomeNeedsSynthesis(audit[id1].outcome)
    /\ "llm_processing" \in Range(audit[id1].stages)
    /\ processingQueue[id2].status = "completed"
    /\ ~OutcomeNeedsSynthesis(audit[id2].outcome)
    /\ "llm_processing" \notin Range(audit[id2].stages)

\* a stage raised an error for entry id while its stage was not terminal
RaisedBeforeTerminal(id) ==
  LET s == audit[id].stages
  IN /\ audit[id].raised # NULL
     /\ Len(s) > 1
     /\ s[Len(s) - 1] \notin Terminal

\* C4: when a stage raised an error for an entry in a non-terminal stage,
\* the last stage written to the entry is failed, its errorMessage is the
\* error's message and its completedAt is set; and no stage is invoked
\* twice for an entry.
C4_ErrorFailsItem ==
  \A id \in Items :
    LET a == audit[id]
        q == processingQueue[id]
    IN /\ RaisedBeforeTerminal(id) =>
            /\ a.stages[Len(a.stages)] = "failed"
            /\ q.status = "failed"
            /\ q.errorMessage = a.raised
            /\ q.completedAt = SET
       /\ \A i, j \in 1..Len(a.invoked) : a.invoked[i] = a.invoked[j] => i = j

\* the persist stage raised for an entry that was in `validating`
C4_PersistRaised ==
  \E id \in Items :
    /\ RaisedBeforeTerminal(id)
    /\ "persist" \in Range(audit[id].invoked)
    /\ processingQueue[id].status = "failed"

\* C5: every completed entry has exactly one restaurant record created for
\* it, and no failed entry has one.
C5_RecordIffCompleted ==
  \A id \in DOMAIN processingQueue :
    /\ processingQueue[id].status = "completed" => Cardinality(RecordsOf(id)) = 1
    /\ processingQueue[id].status = "failed" => RecordsOf(id) = {}

\* C6: an entry whose HTTP request failed is failed, its errorMessage
\* carries the failure, no stage after fetch was invoked for it, and no
\* restaurant record was created for it.
C6_FetchFailure ==
  \A id \in Items :
    audit[id].fetchFailed =>
      /\ processingQueue[id].status = "failed"
      /\ \E r \in FetchFailures :
           processingQueue[id].errorMessage = FetchError(processingQueue[id].sourceUrl, r)
      /\ Range(audit[id].invoked) = {"fetch"}
      /\ RecordsOf(id) = {}

\* an entry's HTTP request has failed
C6_FetchFailed == \E id \in Items : audit[id].fetchFailed

\* C7: a step of a run that a stopExtraction has reached creates no queue
\* entry.
C7_StoppedRunAcceptsNoItem ==
  [][\A id \in DOMAIN processingQueue' \ DOMAIN processingQueue :
       audit'[id].run \notin stopped]_vars

\* C8: when a call has returned, every URL of its request was processed,
\* the errors list has one entry per failed item of the run, and success is
\* true iff an item of the run completed.
C8_RunResult ==
  \A c \in Calls :
    calls[c].pc = "returned" =>
      LET result == calls[c].result
          failed == {id \in ItemsOf(c) : processingQueue[id].status = "failed"}
          completed == {id \in ItemsOf(c) : processingQueue[id].status = "completed"}
      IN /\ result.totalProcessed = UrlCount(c)
         /\ Cardinality(ItemsOf(c)) = UrlCount(c)
         /\ ItemsOf(c) = failed \cup completed
         /\ Len(result.errors) = Cardinality(failed)
         /\ result.failedExtractions = Cardinality(failed)
         /\ {e.url : e \in Range(result.errors)}
              = {processingQueue[id].sourceUrl : id \in failed}
         /\ \A e \in Range(result.errors) :
              \E id \in failed : /\ processingQueue[id].sourceUrl = e.url
                                 /\ processingQueue[id].errorMessage = e.message
         /\ result.success <=> completed # {}

\* a call has returned from a run in which one item failed and a later one
\* completed
C8_RunWithFailureReturned ==
  \E c \in Calls :
    /\ calls[c].pc = "returned"
    /\ calls[c].result.failedExtractions > 0
    /\ calls[c].result.successfulExtractions > 0
    /\ processingQueue[Uuid(c, 1)].status = "failed"

\* C9: every restaurant record in the repository parses against
\* restaurantDataSchema.
C9_StoredRecordsValid ==
  \A r \in DOMAIN restaurants : restaurantDataSchemaIssues(restaurants[r], FALSE) = {}

\* C10: every queue entry's stage is one of the seven, and the first stage
\* written to it is queued.
C10_StageOfSeven ==
  \A id \in DOMAIN processingQueue :
    /\ processingQueue[id].status \in Stages
    /\ audit[id].stages[1] = "queued"

\* C11: a queue entry's errorMessage is set only if its stage is failed, and
\* its completedAt is set iff its stage is completed or failed.
C11_ErrorAndCompletionFields ==
  \A id \in DOMAIN processingQueue :
    LET q == processingQueue[id]
    IN /\ q.errorMessage # NULL => q.status = "failed"
       /\ q.completedAt # NULL <=> q.status \in Terminal

\* one entry is failed with its message, another is completed, a third is
\* still under way
C11_TerminalAndRunningEntries ==
  \E id1, id2, id3 \in DOMAIN processingQueue :
    /\ processingQueue[id1].status = "failed"
    /\ processingQueue[id1].errorMessage # NULL
    /\ processingQueue[id2].status = "completed"
    /\ processingQueue[id3].status \notin Terminal
    /\ processingQueue[id3].completedAt = NULL

\* C18: a deleteRestaurant of a stored id removes the record and lowers
\* totalRestaurants by exactly one; a deleteRestaurant of an id that is not
\* stored leaves totalRestaurants as it was.
C18_DeleteDecrementsByOne ==
  [][\A id \in DeletableIds :
       DeleteRestaurant(id) =>
         IF id \in DOMAIN restaurants
         THEN /\ id \notin DOMAIN restaurants'
              /\ systemMetrics'.totalRestaurants = systemMetrics.totalRestaurants - 1
         ELSE systemMetrics'.totalRestaurants = systemMetrics.totalRestaurants]_vars

\* the field paths of a list that are present, non-null and non-empty in
\* the record
RECURSIVE Present(_, _, _)
Present(obj, path, i) ==
  /\ path[i] \in DOMAIN obj
  /\ IF i = Len(path) THEN ~IsEmptyString(obj, path[i])
     ELSE Present(obj[path[i]], path, i + 1)
PresentCount(data, fields) ==
  Cardinality({i \in 1..Len(fields) : Present(data, fields[i], 1)})
\* round(70 * r / 11 + 30 * o / 8)
Score(r, o) == (2 * (r * 70 * 8 + o * 30 * 11) + 88) \div 176

\* C19: the completeness a validateRestaurantData call returns is
\* round(70 * r / 11 + 30 * o / 8), with r and o the numbers of required
\* and optional field paths present in the record.
C19_CompletenessCountsFields ==
  validation.pc = "returned" =>
    validation.result.completeness =
      Score(PresentCount(validation.data, requiredFields),
            PresentCount(validation.data, optionalFields))

\* C20: a validateRestaurantData call returns an outcome and does not
\* raise, and the outcome's completeness and accuracy are within 0..100,
\* also when the schema parse failed.
C20_ValidatorReturnsInRange ==
  validation.pc = "returned" =>
    /\ "raised" \notin DOMAIN validation.result
    /\ validation.result.completeness \in 0..100
    /\ validation.result.accuracy \in 0..100

\* the schema parse failed and a completeness was still worked out
C20_InvalidRecordScored ==
  /\ validation.pc = "returned"
  /\ ~validation.result.isValid
  /\ validation.result.completeness > 0

\* C12: once the registry is initialized it holds exactly one handle for
\* each of the four known stage types.
C12_OneHandlePerType ==
  handles # {} =>
    \A type \in KnownAgentTypes : Cardinality({h \in handles : h.type = type}) = 1

\* C13: the totalProcessed, requestsToday and errorCount reported for an
\* agent id never decrease.
C13_CountersNeverDecrease ==
  [][\A h \in handles : \A h2 \in handles' :
       h2.id = h.id =>
         LET old == getMetrics(h, geminiService)
             new == getMetrics(h2, geminiService')
         IN /\ new.totalProcessed >= old.totalProcessed
            /\ new.requestsToday >= old.requestsToday
            /\ new.errorCount >= old.errorCount]_vars

\* C14: once an entry has been driven through fetch, extract and validate,
\* the web-scraper, data-extractor and schema-validator handles have each
\* processed a unit.
C14_HandlesCountItems ==
  \A id \in Items :
    "validate" \in Range(audit[id].invoked) =>
      \A h \in handles :
        h.type \in {"web-scraper", "data-extractor", "schema-validator"} =>
          h.metrics.totalProcessed >= 1

\* C15: when a process call has settled and is about to return or rethrow,
\* its handle's requestsToday and totalProcessed are one more than when
\* the call began, errorCount is one more exactly when the call failed,
\* and lastError is the failure's message exactly when it failed.
C15_CountersUpdatedOnBothPaths ==
  proc.pc = "settled" =>
    LET m == Target.metrics
    IN /\ m.requestsToday = proc.before.requestsToday + 1
       /\ m.totalProcessed = proc.before.totalProcessed + 1
       /\ m.errorCount = proc.before.errorCount + (IF proc.success THEN 0 ELSE 1)
       /\ m.lastError = (IF proc.success THEN proc.before.lastError ELSE proc.message)

\* a call has failed on a handle that had processed a unit before, and
\* another has succeeded
C15_FailedCallSettled ==
  /\ proc.pc = "settled"
  /\ ~proc.success
  /\ proc.before.totalProcessed > 0
  /\ proc.message # NULL

\* C16: once a call was made, the success rate of every handle's metrics
\* snapshot is (totalProcessed - errorCount) / totalProcessed * 100 of the
\* same snapshot.
C16_SuccessRateFromTotals ==
  \A h \in handles :
    LET m == getMetrics(h, geminiService)
    IN m.totalProcessed > 0 =>
         m.successRate = Rate(m.totalProcessed - m.errorCount, m.totalProcessed)

\* C17: while a process call is under way its handle is active or
\* processing; when the call has settled the handle, and the repository's
\* record of the same id, are idle after a success and error after a
\* failure.
C17_StatusFollowsCall ==
  /\ proc.pc \in {"begun", "called"} => Target.status \in {"active", "processing"}
  /\ proc.pc = "settled" =>
       LET status == IF proc.success THEN "idle" ELSE "error"
       IN /\ Target.status = status
          /\ \E a \in agents : a.id = proc.id /\ a.status = status
          /\ \A a \in agents : a.id = proc.id => a.status = status

\* a call has failed on a handle that an earlier call had left idle
C17_FailureAfterSuccess ==
  /\ proc.pc = "settled"
  /\ ~proc.success
  /\ Target.status = "error"
  /\ proc.before.totalProcessed > proc.before.errorCount

\* the constraints of the canonical schema on the records of the model: a
\* name of 2 to 200 characters, a city, a state and a country, a cuisine,
\* a price range of the four, and a data source, every property present
CanonicalRecord(data) ==
  /\ CandidateProperties \subseteq DOMAIN data
  /\ Len(data.name) >= 2 /\ Len(data.name) <= 200
  /\ \A k \in {"city", "state", "country"} :
       k \in DOMAIN data.address /\ data.address[k] # ""
  /\ Len(data.cuisineTypes) >= 1
  /\ "email" \in DOMAIN data.contactInfo => data.contactInfo.email \in ValidEmails
  /\ data.priceRange \in PriceRanges
  /\ Len(data.dataSources) >= 1

\* C21: a validateRestaurantData call returns isValid = FALSE with an error
\* for a record that violates the canonical schema, and isValid = TRUE
\* only for a record that meets every constraint of it.
C21_ValidIffCanonical ==
  validation.pc = "returned" =>
    /\ validation.result.isValid => CanonicalRecord(validation.data)
    /\ ~CanonicalRecord(validation.data) =>
         ~validation.result.isValid /\ validation.result.errors # {}

\* C22: a GeminiService call that fails (generateContent rejects, or the
\* response text is empty or does not parse) settles the process call made
\* for it as a failure with a message.
C22_SynthesizerFailureSurfaces ==
  /\ proc.pc = "settled"
  /\ proc.kind = "cuisine"
  /\ proc.response \in {"rejected", "empty", "malformed"}
  => ~proc.success /\ proc.message # NULL

\* C27: systemMetrics.activeAgents is the number of agent records whose
\* status is active or processing.
C27_ActiveAgentsCounted ==
  systemMetrics.activeAgents =
    Cardinality({a \in agents : a.status \in {"active", "processing"}})

\* C28: a step raises GeminiService.requestCount by at most one, and raises
\* successCount only when the call it settles returns a result to its
\* caller.
C28_SuccessCountsReturnedCalls ==
  [][/\ geminiService'.requestCount \in
          {geminiService.requestCount, geminiService.requestCount + 1}
     /\ geminiService'.successCount # geminiService.successCount =>
          /\ geminiService'.successCount = geminiService.successCount + 1
          /\ proc'.pc = "settled"
          /\ proc'.success]_vars

\* C23: every stored restaurant record has at least one cuisine type.
C23_StoredCuisineNonEmpty ==
  \A r \in DOMAIN restaurants : Len(restaurants[r].cuisineTypes) >= 1

\* a page without a cuisine keyword was extracted, its entry went through
\* llm_processing, and its record is stored
C23_DefaultedCuisineStored ==
  \E id \in Items :
    /\ "llm_processing" \in Range(audit[id].stages)
    /\ RecordsOf(id) # {}
    /\ \A r \in RecordsOf(id) : restaurants[r].cuisineTypes = <<"Indian">>

\* C24: when a page has an address in its JSON-LD script and a text matched
\* by an address selector, extractAddress returns the JSON-LD address.
C24_StructuredDataFirst ==
  /\ addressCall.pc = "returned"
  /\ jsonLdAddress(addressCall.page.jsonLd) # NULL
  /\ \E i \in 1..Len(addressSelectors) : addressCall.page.texts[i] # ""
  => addressCall.result = jsonLdAddress(addressCall.page.jsonLd)

C26_TotalIsRecordCount ==
  [][systemMetrics'.totalRestaurants # systemMetrics.totalRestaurants
       \/ restaurants' # restaurants
     => systemMetrics'.totalRestaurants = Cardinality(DOMAIN restaurants')]_vars

\* C29: the record extractRestaurantData returns for a page has a non-empty
\* address.city, address.state and address.country.
C29_ExtractedAddressComplete ==
  \A c \in Calls :
    calls[c].extractedData # NoData =>
      \A k \in {"city", "state", "country"} :
        /\ k \in DOMAIN calls[c].extractedData.address
        /\ calls[c].extractedData.address[k] # ""

====
